---------------------------- MODULE Spec2Model ----------------------------
(***************************************************************************)
(* State-machine model of opensearch-index-manager: the cron scheduler of  *)
(* cmd/manager/main.go with its per-job try-lock, the backup pipeline of   *)
(* internal/backup/backup.go (window loop, merge, gzip, upload, temp-file  *)
(* reclamation), the uploader of internal/storage and the cleanup executor *)
(* of internal/cleanup/cleanup.go.                                         *)
(*                                                                         *)
(* Every cron firing is its own goroutine: an execution is a pair <<j, k>> *)
(* of a registered job j and the number k of the firing.  Instants are     *)
(* milliseconds since 00:00:00.000 UTC of the target day (yesterday).      *)
(***************************************************************************)
EXTENDS Integers, Sequences, FiniteSets, TLC

VARIABLES
  cfg,      \* the loaded configuration (config.Config): job lists
  index,    \* the search index: index name -> (instant -> number of documents)
  fs,       \* the local file system: path -> content (a sequence of tokens)
  s3,       \* the bucket: key -> content of the stored object
  mutex,    \* job -> TRUE when the job's sync.Mutex is locked
  fires,    \* job -> number of cron firings of the job so far
  pc,       \* execution -> position of its goroutine
  run,      \* execution -> the locals of its handler / Backup / Upload call
  proc      \* position of main after c.Start(), or how the process ended

vars == <<cfg, index, fs, s3, mutex, fires, pc, run, proc>>

---------------------------------------------------------------------------
(* Bounds of the model *)

\* cron firings of one job
MaxFirings == 2
\* count-probe / extraction failures the collaborators inject into one run
MaxWindowFailures == 1

---------------------------------------------------------------------------
(* Program constants *)

maxRetries == 3
\* baseDelay = 2 * time.Second, in seconds
baseDelay == 2
workDir == "/tmp/opensearch-backups"
\* date.Format("01-02-06") of the target day
targetDate == "11-03-26"

HourMs == 60 * 60 * 1000
SecondMs == 1000
\* time.Date(y, m, d, 23, 59, 59, 999000000, time.UTC)
DayEndMs == 23 * HourMs + 59 * 60 * SecondMs + 59 * SecondMs + 999

---------------------------------------------------------------------------
(* Generic helpers *)

RECURSIVE SumSeq(_)
SumSeq(s) == IF s = <<>> THEN 0 ELSE Head(s) + SumSeq(Tail(s))

RECURSIVE Flatten(_)
Flatten(ss) == IF ss = <<>> THEN <<>> ELSE Head(ss) \o Flatten(Tail(ss))

\* filepath.Join of two clean components
Join(dir, base) == dir \o "/" \o base

\* fmt.Errorf("<msg>: %w", err): an error is the chain of its messages
Wrap(msg, err) == <<msg>> \o err

NoErr == <<>>

---------------------------------------------------------------------------
(* Jobs and executions *)

CleanupJobIds(c) == {<<"cleanup", n>> : n \in 1..Len(c.CleanupJobs)}
BackupJobIds(c) == {<<"backup", n>> : n \in 1..Len(c.BackupJobs)}
JobIds(c) == CleanupJobIds(c) \cup BackupJobIds(c)
Execs(c) == JobIds(c) \X (1..MaxFirings)

\* the job definition the closure of job j captured
JobOf(j) == IF j[1] = "cleanup" THEN cfg.CleanupJobs[j[2]] ELSE cfg.BackupJobs[j[2]]

\* cleanupMutexes / backupMutexes once the registration loop over jobs has
\* ended: every iteration stores a new sync.Mutex under job.IndexName, so the
\* entry of a name is the mutex made for the last job registered with it
\* (a mutex is named by the position of the job it was made for)
mutexes(jobs) ==
  [name \in {jobs[n].IndexName : n \in 1..Len(jobs)} |->
     CHOOSE n \in 1..Len(jobs) :
       /\ jobs[n].IndexName = name
       /\ \A m \in 1..Len(jobs) : jobs[m].IndexName = name => m <= n]

\* the mutex the closure of the n-th job holds: `mutex := ...Mutexes[job.IndexName]`
\* is read in the iteration that stored it, before any later job replaces
\* the entry
captured(jobs, n) == mutexes(SubSeq(jobs, 1, n))[jobs[n].IndexName]

\* the mutex the closure of job j tries: a mutex is named like the job it was
\* made for
LockOf(j) ==
  <<j[1], captured(IF j[1] = "cleanup" THEN cfg.CleanupJobs ELSE cfg.BackupJobs, j[2])>>

\* sync.Mutex.TryLock: succeeds exactly when the mutex is not held
\* (TryLockAlways: a lock that never refuses)
TryLockAlways(m) == TRUE
TryLock(m) == ~m

---------------------------------------------------------------------------
(* The process: main from c.Start() on *)

\* proc is "up" while main waits at <-sigChan, "signalled" once the signal
\* was received, "cancelled" after cancel(), "stopped" after c.Stop(),
\* "exited" when main has returned, "crashed" when a panic ended the process

\* the process exists: its goroutines take steps
Alive == proc \notin {"exited", "crashed"}

\* the cron scheduler runs its entries: from c.Start() until c.Stop()
Scheduling == proc \in {"up", "signalled", "cancelled"}

\* ctx.Done() is closed: cancel() was called
Cancelled == proc \in {"cancelled", "stopped", "exited"}

---------------------------------------------------------------------------
(* Window planning: Service.Backup and Service.downloadPeriod *)

\* the int division of Go truncates toward zero; with IntervalHours = 0 the
\* division panics and periodsCount has no value (see BackupPanic)
periodsCount(job) ==
  IF job.IntervalHours > 0 THEN 24 \div job.IntervalHours
  ELSE -(24 \div (-job.IntervalHours))

startHour(job, i) == i * job.IntervalHours
endHour(job, i) == startHour(job, i) + job.IntervalHours

startTime(sh) == sh * HourMs

\* endTime of downloadPeriod (endTimeNoGap: without the .Add(-time.Millisecond))
endTimeNoGap(eh) == IF eh >= 24 THEN DayEndMs ELSE eh * HourMs
endTime(eh) == IF eh >= 24 THEN DayEndMs ELSE eh * HourMs - 1

\* time.Time.Format(time.RFC3339): the layout has no fractional seconds, the
\* text names a whole second (here: the second's number within the day)
FormatRFC3339(t) == t \div SecondMs

\* the instant the text of a bound names: the start of its second
ParseBound(s) == s * SecondMs

\* the window the i-th iteration (i = 0 ..) of Backup's loop hands to downloadPeriod
Window(job, i) ==
  [fileNum |-> i + 1,
   start   |-> startTime(startHour(job, i)),
   end     |-> endTime(endHour(job, i))]

\* the windows one run derives, in loop order
Windows(job) == [n \in 1..periodsCount(job) |-> Window(job, n - 1)]

---------------------------------------------------------------------------
(* File names *)

\* fmt.Sprintf("%s-%s-%d.json", date.Format("01-02-06"), job.IndexName, fileNum)
WindowFile(job, fileNum) ==
  Join(workDir, targetDate \o "-" \o job.IndexName \o "-" \o ToString(fileNum) \o ".json")

\* fmt.Sprintf("%s-%s.json", date.Format("01-02-06"), indexName)
MergedBase(indexName) == targetDate \o "-" \o indexName \o ".json"
MergedFile(indexName) == Join(workDir, MergedBase(indexName))

\* compressedFilename := filename + ".gz"
CompressedName(filename) == filename \o ".gz"

\* filepath.Join(job.S3Path, filepath.Base(compressedFile))
S3Key(job) == Join(job.S3Path, CompressedName(MergedBase(job.IndexName)))

---------------------------------------------------------------------------
(* The collaborators: the search index and the bucket *)

\* instants at which the modelled day holds documents: the start of each hour
DocInstants == {h * HourMs : h \in 0..23}

NoDocs == [t \in DocInstants |-> 0]
\* documents in hours 4 and 12 only (10 and 5 of them)
TwoWindowDay == [NoDocs EXCEPT ![4 * HourMs] = 10, ![12 * HourMs] = 5]
\* documents in the first and in the next-to-last hour of the day
LateDay == [NoDocs EXCEPT ![0] = 1, ![22 * HourMs] = 3]
\* documents in the next-to-last hour only
EveningDay == [NoDocs EXCEPT ![22 * HourMs] = 3]
Days == {NoDocs, TwoWindowDay, LateDay}

\* the documents of the hours h .. 23 whose instant lies within [from, to]
RECURSIVE SumHours(_, _, _, _)
SumHours(docs, from, to, h) ==
  IF h > 23 THEN 0
  ELSE (IF from <= h * HourMs /\ h * HourMs <= to THEN docs[h * HourMs] ELSE 0)
         + SumHours(docs, from, to, h + 1)

\* number of documents whose @timestamp lies in the range {"gte": .., "lte": ..}
Matching(docs, gte, lte) == SumHours(docs, ParseBound(gte), ParseBound(lte), 0)

\* errors the collaborators and the file system report
\* the error PutObject reports when an attempt fails: one per attempt, so that
\* an error chain shows which attempt it wraps
PutError(attempt) == <<"put: attempt " \o ToString(attempt) \o " failed">>
IoErr(what) == <<what>>
\* ctx.Err() after cancel(): what a call given the cancelled ctx returns
CtxErr == <<"context canceled">>

Min(a, b) == IF a <= b THEN a ELSE b

\* the number of hits of a search response: the request asks for `size`
\* documents (the probed count) and gets those that match when it is served
\* (searchHitsAsProbed: as many as were probed)
searchHitsAsProbed(size, matching) == size
searchHits(size, matching) == Min(size, matching)

\* The locals of one execution, as they are when the goroutine starts.
\*   i, allFiles                      Backup's loop
\*   count                            downloadPeriod's count
\*   mergedFile, totalCount, compressedFile   Backup's locals after the loop
\*   attempt, lastErr                 Upload's loop
\*   err                              what Cleanup / Backup returned
\*   reqs, paces, puts, waits         what the run asked of its collaborators
\*                                    and the sleeps it took (observation only)
\*   wins                             the windows downloadPeriod derived
\*   got                              the window artifacts written: number, payload
\*   skipped                          the windows whose downloadPeriod failed
\*   made                             the paths this run created or truncated
\*   fails                            injected window failures so far
\*   dels                             what DeleteByQuery answered (observation only)
InitRun ==
  [i |-> 0, allFiles |-> <<>>, count |-> 0, mergedFile |-> "", totalCount |-> 0,
   compressedFile |-> "", attempt |-> 0, lastErr |-> NoErr, err |-> NoErr,
   reqs |-> <<>>, paces |-> <<>>, puts |-> <<>>, waits |-> <<>>,
   wins |-> <<>>, got |-> <<>>, skipped |-> {}, made |-> {}, fails |-> 0,
   dels |-> <<>>]

\* the range body both getCount and searchAndSave build
RangeReq(op, job, w, size) ==
  [op |-> op, index |-> job.IndexName,
   gte |-> FormatRFC3339(w.start), lte |-> FormatRFC3339(w.end), size |-> size]

\* the payload searchAndSave writes: the search response, one JSON value
Response(req, hits) == [gte |-> req.gte, lte |-> req.lte, hits |-> hits, complete |-> TRUE]
\* what a failed encoder.Encode leaves in the created file
PartialPayload(req) == [gte |-> req.gte, lte |-> req.lte, hits |-> 0, complete |-> FALSE]

\* the file system: no file; create or truncate-and-write; os.Remove
NoFiles == [p \in {} |-> <<>>]
WriteFile(f, path, content) == (path :> content) @@ f
RemoveFiles(f, paths) == [p \in DOMAIN f \ paths |-> f[p]]
Range(q) == {q[n] : n \in 1..Len(q)}

\* Backup's loop condition and the test after the loop: where the run goes
\* once its loop variable is r.i
\* (LoopHeadAlwaysMerge: without the len(allFiles) == 0 test)
LoopHeadAlwaysMerge(job, r) ==
  IF r.i < periodsCount(job) THEN "count" ELSE "merge"
LoopHead(job, r) ==
  IF r.i < periodsCount(job) THEN "count"
  ELSE IF Len(r.allFiles) = 0 THEN "ret" ELSE "merge"

\* i++ and the loop condition
Continue(job, r) ==
  LET r2 == [r EXCEPT !.i = @ + 1] IN [pc |-> LoopHead(job, r2), run |-> r2]

\* downloadPeriod returned an error: it is logged, and `continue` goes to the
\* next iteration without the pause (OnErrorAbort: a `return err` instead)
OnErrorAbort(job, r) ==
  [pc |-> "ret", run |-> [r EXCEPT !.err = Wrap("failed to download period", IoErr("window"))]]
OnError(job, r) == Continue(job, r)

\* the pause test after a downloadPeriod that returned no error
NeedsPause(job, r) == r.i < periodsCount(job) - 1 /\ job.RequestInterval > 0

AfterWindow(job, r) ==
  IF NeedsPause(job, r) THEN [pc |-> "pause", run |-> r] ELSE Continue(job, r)

---------------------------------------------------------------------------
(* Initial states *)

TypeOK ==
  /\ mutex \in [JobIds(cfg) -> BOOLEAN]
  /\ fires \in [JobIds(cfg) -> 0..MaxFirings]
  /\ DOMAIN pc = Execs(cfg)
  /\ DOMAIN run = Execs(cfg)
  /\ proc \in {"up", "signalled", "cancelled", "stopped", "exited", "crashed"}

InitWith(c, days) ==
  /\ cfg = c
  /\ index \in [{c.CleanupJobs[n].IndexName : n \in 1..Len(c.CleanupJobs)}
                 \cup {c.BackupJobs[n].IndexName : n \in 1..Len(c.BackupJobs)} -> days]
  /\ fs = NoFiles
  /\ s3 = NoFiles
  /\ mutex = [j \in JobIds(c) |-> FALSE]
  /\ fires = [j \in JobIds(c) |-> 0]
  /\ pc = [e \in Execs(c) |-> "unfired"]
  /\ run = [e \in Execs(c) |-> InitRun]
  /\ proc = "up"

\* one cleanup job and one backup job on the same index; with retention 0 the
\* cleanup deletes the documents of the day the backup reads
SchedConfigs ==
  {[CleanupJobs |-> <<[IndexName |-> "logs", RetentionDays |-> rd]>>,
    BackupJobs  |-> <<[IndexName |-> "logs", IntervalHours |-> ih,
                       S3Path |-> "backups", RequestInterval |-> 30]>>]
     : rd \in {0}, ih \in {12}}

\* one backup job, every interval the loop can run with
BackupConfigs ==
  {[CleanupJobs |-> <<>>,
    BackupJobs  |-> <<[IndexName |-> "logs", IntervalHours |-> ih,
                       S3Path |-> "backups", RequestInterval |-> ri]>>]
     : ih \in 1..24, ri \in {0, 30}}

Init == \E c \in SchedConfigs : InitWith(c, {LateDay})

\* a cleanup job that keeps a month and a backup job of two windows, on a
\* day whose documents are all in the second window
LiveConfigs ==
  {[CleanupJobs |-> <<[IndexName |-> "logs", RetentionDays |-> 30]>>,
    BackupJobs  |-> <<[IndexName |-> "logs", IntervalHours |-> 12,
                       S3Path |-> "backups", RequestInterval |-> 30]>>]}

InitLive == \E c \in LiveConfigs : InitWith(c, {EveningDay})

\* two cleanup jobs; the retention of the first is today, yesterday or a month
CleanupConfigs ==
  {[CleanupJobs |-> <<[IndexName |-> "logs", RetentionDays |-> rd],
                      [IndexName |-> "audit", RetentionDays |-> 7]>>,
    BackupJobs  |-> <<>>] : rd \in {0, 1, 30}}

InitCleanup == \E c \in CleanupConfigs : InitWith(c, {LateDay})

\* one backup job with whatever interval the configuration file gives:
\* LoadConfig checks none of its fields
AnyIntervalConfigs ==
  {[CleanupJobs |-> <<>>,
    BackupJobs  |-> <<[IndexName |-> "logs", IntervalHours |-> ih,
                       S3Path |-> "backups", RequestInterval |-> 30]>>]
     : ih \in {-5, 0, 12, 30}}

InitAnyInterval == \E c \in AnyIntervalConfigs : InitWith(c, {LateDay})

\* one backup job of two windows
ProcessConfigs == {c \in AnyIntervalConfigs : c.BackupJobs[1].IntervalHours = 12}

InitProcess == \E c \in ProcessConfigs : InitWith(c, {LateDay})

\* a backup job and a cleanup job on the same index; the cleanup keeps
\* nothing or a month
RaceConfigs ==
  {[CleanupJobs |-> <<[IndexName |-> "logs", RetentionDays |-> rd]>>,
    BackupJobs  |-> <<[IndexName |-> "logs", IntervalHours |-> 12,
                       S3Path |-> "backups", RequestInterval |-> 30]>>]
     : rd \in {0, 30}}

\* the backup job fired: its closure took the backup lock and its Backup
\* call is at its loop condition; the cleanup job, with its own lock, has
\* not fired yet
InitRace ==
  \E c \in RaceConfigs :
    /\ cfg = c
    /\ index \in [{"logs"} -> {TwoWindowDay, LateDay}]
    /\ fs = NoFiles
    /\ s3 = NoFiles
    /\ mutex = [k \in JobIds(c) |-> k[1] = "backup"]
    /\ fires = [k \in JobIds(c) |-> IF k[1] = "backup" THEN 1 ELSE 0]
    /\ pc = [e \in Execs(c) |->
               IF e = <<<<"backup", 1>>, 1>> THEN LoopHead(c.BackupJobs[1], InitRun)
               ELSE "unfired"]
    /\ run = [e \in Execs(c) |-> InitRun]
    /\ proc = "up"

\* two backup jobs: the second on the same index as the first, on an index
\* whose name extends the first's, or on an unrelated index
TwoJobConfigs ==
  {[CleanupJobs |-> <<>>,
    BackupJobs  |-> <<[IndexName |-> "logs", IntervalHours |-> 12,
                       S3Path |-> "backups", RequestInterval |-> 30],
                      [IndexName |-> name, IntervalHours |-> 24,
                       S3Path |-> "archive", RequestInterval |-> 0]>>]
     : name \in {"logs", "logs-1", "audit"}}

\* both jobs fired: each closure took its own mutex and its Backup call is
\* at its loop condition
InitTwoJobs ==
  \E c \in TwoJobConfigs :
    /\ cfg = c
    /\ index \in [{c.BackupJobs[n].IndexName : n \in 1..2} -> {LateDay}]
    /\ fs = NoFiles
    /\ s3 = NoFiles
    /\ mutex = [k \in JobIds(c) |-> TRUE]
    /\ fires = [k \in JobIds(c) |-> 1]
    /\ pc = [e \in Execs(c) |->
               IF e[2] = 1 THEN LoopHead(c.BackupJobs[e[1][2]], InitRun) ELSE "unfired"]
    /\ run = [e \in Execs(c) |-> InitRun]
    /\ proc = "up"

\* two backup jobs on the same index
SameIndexConfigs == {c \in TwoJobConfigs : c.BackupJobs[2].IndexName = "logs"}

InitSameIndex == \E c \in SameIndexConfigs : InitWith(c, {EveningDay})

\* one call of Backup in progress when the signal may arrive
CancelConfigs == {c \in BackupConfigs : c.BackupJobs[1].IntervalHours \in {8, 12}}

InitCancel ==
  \E c \in CancelConfigs :
    /\ cfg = c
    /\ index \in [{c.BackupJobs[1].IndexName} -> {TwoWindowDay, LateDay}]
    /\ fs = NoFiles
    /\ s3 = NoFiles
    /\ mutex = [k \in JobIds(c) |-> TRUE]
    /\ fires = [k \in JobIds(c) |-> 1]
    /\ pc = [e \in Execs(c) |->
               IF e = <<<<"backup", 1>>, 1>> THEN LoopHead(c.BackupJobs[1], InitRun)
               ELSE "unfired"]
    /\ run = [e \in Execs(c) |-> InitRun]
    /\ proc = "up"

\* what an earlier run of the job that failed after its merge left in workDir:
\* its first window file, its merged file and its compressed file
StaleFiles(job) ==
  LET old == <<[gte |-> 0, lte |-> 0, hits |-> 7, complete |-> TRUE]>> IN
    WriteFile(WriteFile(WriteFile(NoFiles,
      WindowFile(job, 1), old),
      MergedFile(job.IndexName), old \o old),
      CompressedName(MergedFile(job.IndexName)), old)

\* one call of Backup, made by the first firing of the only job: the closure
\* holds the lock, Backup is at its loop condition; workDir is empty or holds
\* stale files
InitBackup ==
  \E c \in BackupConfigs :
    LET j == <<"backup", 1>> IN
      /\ cfg = c
      /\ index \in [{c.BackupJobs[1].IndexName} -> Days]
      /\ fs \in {NoFiles, StaleFiles(c.BackupJobs[1])}
      /\ s3 = NoFiles
      /\ mutex = [k \in JobIds(c) |-> TRUE]
      /\ fires = [k \in JobIds(c) |-> 1]
      /\ pc = [e \in Execs(c) |->
                 IF e = <<j, 1>> THEN LoopHead(c.BackupJobs[1], InitRun) ELSE "unfired"]
      /\ run = [e \in Execs(c) |-> InitRun]
      /\ proc = "up"

\* one call of Backup in a work directory that holds no file
InitFresh == InitBackup /\ fs = NoFiles

---------------------------------------------------------------------------
(* The scheduler's handler closures: main, lines 108-120 and 133-145 *)

\* (HandlerSkipUnlock: the closure with its `defer mutex.Unlock()` placed
\* before the TryLock test, so that the skipped firing releases the lock)
HandlerSkipUnlock(j) ==
  /\ Scheduling
  /\ fires[j] < MaxFirings
  /\ ~TryLock(mutex[LockOf(j)])
  /\ fires' = [fires EXCEPT ![j] = @ + 1]
  /\ pc' = [pc EXCEPT ![<<j, fires[j] + 1>>] = "skipped"]
  /\ mutex' = [mutex EXCEPT ![LockOf(j)] = FALSE]
  /\ UNCHANGED <<cfg, proc, index, fs, s3, run>>

\* the firing finds the mutex held: TryLock fails, the closure logs and returns
HandlerSkip(j) ==
  /\ Scheduling
  /\ fires[j] < MaxFirings
  /\ ~TryLock(mutex[LockOf(j)])
  /\ fires' = [fires EXCEPT ![j] = @ + 1]
  /\ pc' = [pc EXCEPT ![<<j, fires[j] + 1>>] = "skipped"]
  /\ UNCHANGED <<cfg, proc, index, fs, s3, mutex, run>>

\* the firing takes the mutex and calls Cleanup / Backup; `first` is where
\* the callee starts
HandlerStart(j, first) ==
  /\ Scheduling
  /\ fires[j] < MaxFirings
  /\ TryLock(mutex[LockOf(j)])
  /\ fires' = [fires EXCEPT ![j] = @ + 1]
  /\ mutex' = [mutex EXCEPT ![LockOf(j)] = TRUE]
  /\ pc' = [pc EXCEPT ![<<j, fires[j] + 1>>] = first]
  /\ UNCHANGED <<cfg, proc, index, fs, s3, run>>

\* (HandlerReturnNoUnlock: the closure without its `defer mutex.Unlock()`)
HandlerReturnNoUnlock(e) ==
  /\ Alive
  /\ pc[e] = "ret"
  /\ pc' = [pc EXCEPT ![e] = "done"]
  /\ run' = [run EXCEPT ![e] = InitRun]
  /\ UNCHANGED <<cfg, proc, index, fs, s3, mutex, fires>>

\* Cleanup / Backup returned: the closure logs the error, if any, and the
\* deferred mutex.Unlock() runs; the goroutine and its locals are gone
HandlerReturn(e) ==
  /\ Alive
  /\ pc[e] = "ret"
  /\ mutex' = [mutex EXCEPT ![LockOf(e[1])] = FALSE]
  /\ pc' = [pc EXCEPT ![e] = "done"]
  /\ run' = [run EXCEPT ![e] = InitRun]
  /\ UNCHANGED <<cfg, proc, index, fs, s3, fires>>

CleanupHandlerSkip(j) == j \in CleanupJobIds(cfg) /\ HandlerSkip(j)
CleanupHandlerStart(j) == j \in CleanupJobIds(cfg) /\ HandlerStart(j, "delete")
CleanupHandlerReturn(e) == e[1] \in CleanupJobIds(cfg) /\ HandlerReturn(e)

BackupHandlerSkip(j) == j \in BackupJobIds(cfg) /\ HandlerSkip(j)
\* Backup starts: allFiles is empty, i = 0, and the loop condition is tested
BackupHandlerStart(j) ==
  /\ j \in BackupJobIds(cfg)
  /\ JobOf(j).IntervalHours # 0
  /\ HandlerStart(j, LoopHead(JobOf(j), InitRun))

\* the firing takes the mutex and calls Backup with IntervalHours = 0: the
\* division 24 / job.IntervalHours panics; the deferred Unlock runs, nothing
\* in the cron chain recovers, the runtime ends the process
BackupPanic(j) ==
  /\ Scheduling
  /\ j \in BackupJobIds(cfg)
  /\ JobOf(j).IntervalHours = 0
  /\ fires[j] < MaxFirings
  /\ TryLock(mutex[LockOf(j)])
  /\ fires' = [fires EXCEPT ![j] = @ + 1]
  /\ pc' = [pc EXCEPT ![<<j, fires[j] + 1>>] = "panic"]
  /\ proc' = "crashed"
  /\ UNCHANGED <<cfg, index, fs, s3, mutex, run>>
BackupHandlerReturn(e) == e[1] \in BackupJobIds(cfg) /\ HandlerReturn(e)

---------------------------------------------------------------------------
(* main's shutdown sequence: lines 156-165 *)

\* <-sigChan: SIGINT / SIGTERM was delivered
Signal ==
  /\ proc = "up"
  /\ proc' = "signalled"
  /\ UNCHANGED <<cfg, index, fs, s3, mutex, fires, pc, run>>

\* cancel(): ctx.Done() is closed
CancelCtx ==
  /\ proc = "signalled"
  /\ proc' = "cancelled"
  /\ UNCHANGED <<cfg, index, fs, s3, mutex, fires, pc, run>>

\* c.Stop(): cron v3 stops its run loop and returns a context that is done
\* once the running jobs have returned; main drops that context, so the call
\* returns with the handlers where they are
StopCron ==
  /\ proc = "cancelled"
  /\ proc' = "stopped"
  /\ UNCHANGED <<cfg, index, fs, s3, mutex, fires, pc, run>>

\* main logs "Shutdown complete" and returns: the process ends, and every
\* goroutine with it
Exit ==
  /\ proc = "stopped"
  /\ proc' = "exited"
  /\ UNCHANGED <<cfg, index, fs, s3, mutex, fires, pc, run>>

---------------------------------------------------------------------------
(* Service.Cleanup *)

\* "lte": "now-<n>d/d" names the last millisecond of the day n days before
\* today; the model's documents are yesterday's: they match when n <= 1
deletesTargetDay(retentionDays) == 1 - retentionDays >= 0

\* fmt.Sprintf of the range bound: "lte": "now-%dd/d"
\* (dateMathNoRound: without the /d rounding)
dateMathNoRound(retentionDays) == "now-" \o ToString(retentionDays) \o "d"
dateMath(retentionDays) == "now-" \o ToString(retentionDays) \o "d/d"

\* the DocumentDeleteByQueryReq Cleanup builds
deleteQuery(job) ==
  [op |-> "delete", index |-> job.IndexName, lte |-> dateMath(job.RetentionDays)]

Cleanup(e) ==
  /\ Alive
  /\ pc[e] = "delete"
  /\ e[1] \in CleanupJobIds(cfg)
  /\ LET job == JobOf(e[1])
         req == deleteQuery(job)
     IN \/ \* DeleteByQuery succeeds
           /\ ~Cancelled
           /\ index' = [index EXCEPT ![job.IndexName] =
                          [t \in DOMAIN @ |->
                             IF deletesTargetDay(job.RetentionDays) THEN 0 ELSE @[t]]]
           /\ run' = [run EXCEPT ![e].reqs = Append(@, req),
                                 ![e].dels = Append(@, NoErr)]
        \/ \* DeleteByQuery fails: the error is wrapped and returned, no retry
           \E err \in {IoErr("delete: transport")} :
             /\ index' = index
             /\ run' = [run EXCEPT ![e].reqs = Append(@, req),
                                   ![e].dels = Append(@, err),
                                   ![e].err = Wrap("delete by query failed", err)]
  /\ pc' = [pc EXCEPT ![e] = "ret"]
  /\ UNCHANGED <<cfg, proc, fs, s3, mutex, fires>>

---------------------------------------------------------------------------
(* Service.Backup: the window loop, with downloadPeriod *)

\* what Backup does with the outcome [pc, run] of one loop step
Goto(e, to) ==
  /\ pc' = [pc EXCEPT ![e] = to.pc]
  /\ run' = [run EXCEPT ![e] = to.run]

\* downloadPeriod up to its count test: the window's bounds, then getCount
getCount(e) ==
  /\ Alive
  /\ pc[e] = "count"
  /\ LET job == JobOf(e[1])
         r   == run[e]
         w   == Window(job, r.i)
         req == RangeReq("count", job, w, 0)
         r1  == [r EXCEPT !.reqs = Append(@, req), !.wins = Append(@, w)]
         count == Matching(index[job.IndexName], req.gte, req.lte)
     IN \/ \* Indices.Count fails (it does when ctx is cancelled): downloadPeriod
           \* returns the error, Backup logs it and continues with the next window
           /\ Cancelled \/ r.fails < MaxWindowFailures
           /\ Goto(e, OnError(job, [r1 EXCEPT !.fails = IF Cancelled THEN @ ELSE @ + 1,
                                               !.skipped = @ \cup {w.fileNum}]))
        \/ \* the count is 0: downloadPeriod returns ("", nil)
           /\ ~Cancelled
           /\ count = 0
           /\ Goto(e, AfterWindow(job, r1))
        \/ \* documents found: on to searchAndSave
           /\ ~Cancelled
           /\ count > 0
           /\ Goto(e, [pc |-> "search", run |-> [r1 EXCEPT !.count = count]])
  /\ UNCHANGED <<cfg, proc, index, fs, s3, mutex, fires>>

\* the rest of downloadPeriod: searchAndSave into the window's file
searchAndSave(e) ==
  /\ Alive
  /\ pc[e] = "search"
  /\ LET job == JobOf(e[1])
         r   == run[e]
         w   == Window(job, r.i)
         filename == WindowFile(job, w.fileNum)
         req == RangeReq("search", job, w, r.count)
         r1  == [r EXCEPT !.reqs = Append(@, req), !.count = 0]
         failed == [r1 EXCEPT !.fails = IF Cancelled THEN @ ELSE @ + 1,
                              !.skipped = @ \cup {w.fileNum}]
         hits == searchHits(r.count, Matching(index[job.IndexName], req.gte, req.lte))
     IN \/ \* Search fails (it does when ctx is cancelled), or os.Create fails:
           \* no file
           /\ Cancelled \/ r.fails < MaxWindowFailures
           /\ fs' = fs
           /\ Goto(e, OnError(job, failed))
        \/ \* encoder.Encode fails: the created file stays, with a partial payload
           /\ ~Cancelled
           /\ r.fails < MaxWindowFailures
           /\ fs' = WriteFile(fs, filename, <<PartialPayload(req)>>)
           /\ Goto(e, OnError(job, [failed EXCEPT !.made = @ \cup {filename}]))
        \/ \* the response is saved; Backup appends the file name
           /\ ~Cancelled
           /\ fs' = WriteFile(fs, filename, <<Response(req, hits)>>)
           /\ Goto(e, AfterWindow(job,
                 [r1 EXCEPT !.allFiles = Append(@, filename),
                            !.made = @ \cup {filename},
                            !.got = Append(@, [fileNum |-> w.fileNum,
                                               payload |-> <<Response(req, hits)>>])]))
  /\ UNCHANGED <<cfg, proc, index, s3, mutex, fires>>

\* time.Sleep(RequestInterval seconds) between two windows
Pause(e) ==
  /\ Alive
  /\ pc[e] = "pause"
  /\ LET job == JobOf(e[1]) IN
       Goto(e, Continue(job, [run[e] EXCEPT !.paces = Append(@, job.RequestInterval)]))
  /\ UNCHANGED <<cfg, proc, index, fs, s3, mutex, fires>>

---------------------------------------------------------------------------
(* Service.mergeFiles *)

\* json.Decoder.Decode of the file's first JSON value into the anonymous
\* search-response struct: fails on an empty or incomplete payload
Decodable(content) ==
  /\ content # <<>>
  /\ "complete" \in DOMAIN Head(content)
  /\ Head(content).complete

\* len(searchResponse.Hits.Hits)
DecodeHits(content) == Head(content).hits

\* totalCount += len(searchResponse.Hits.Hits)  (addCountOverwrite: `=` for `+=`)
addCountOverwrite(total, content) == DecodeHits(content)
addCount(total, content) == total + DecodeHits(content)

\* io.Copy(merged, file): the file's bytes are appended to the merged file
\* (copyPrepend: they are put in front)
copyPrepend(f, merged, file) == WriteFile(f, merged, f[file] \o f[merged])
copy(f, merged, file) == WriteFile(f, merged, f[merged] \o f[file])

\* the loop over files, from the k-th on; failAt names the file at which the
\* file system reports an error on open (0: at none)
RECURSIVE mergeLoop(_, _, _, _, _, _)
mergeLoop(files, k, f, merged, total, failAt) ==
  IF k > Len(files) THEN [fs |-> f, total |-> total, err |-> NoErr]
  ELSE LET file == files[k] IN
    IF file \notin DOMAIN f \/ k = failAt
      THEN [fs |-> f, total |-> 0, err |-> IoErr("open: " \o file)]
    ELSE IF ~Decodable(f[file])
      THEN [fs |-> f, total |-> 0,
            err |-> Wrap("failed to decode JSON from " \o file, IoErr("decode"))]
    ELSE mergeLoop(files, k + 1, copy(f, merged, file), merged,
                   addCount(total, f[file]), failAt)

mergeFiles(e) ==
  /\ Alive
  /\ pc[e] = "merge"
  /\ LET job == JobOf(e[1])
         r   == run[e]
         mergedFilename == MergedFile(job.IndexName)
     IN \/ \* os.Create of the merged file fails
           /\ fs' = fs
           /\ Goto(e, [pc |-> "ret",
                       run |-> [r EXCEPT !.err = Wrap("failed to merge files",
                                                      IoErr("create: " \o mergedFilename))]])
        \/ \E failAt \in 0..Len(r.allFiles) :
             LET m == mergeLoop(r.allFiles, 1, WriteFile(fs, mergedFilename, <<>>),
                                mergedFilename, 0, failAt)
             IN /\ fs' = m.fs
                /\ IF m.err # NoErr
                     THEN Goto(e, [pc |-> "ret",
                                   run |-> [r EXCEPT !.err = Wrap("failed to merge files", m.err),
                                                     !.made = @ \cup {mergedFilename}]])
                     ELSE Goto(e, [pc |-> "compress",
                                   run |-> [r EXCEPT !.mergedFile = mergedFilename,
                                                     !.totalCount = m.total,
                                                     !.made = @ \cup {mergedFilename}]])
  /\ UNCHANGED <<cfg, proc, index, s3, mutex, fires>>

---------------------------------------------------------------------------
(* Service.compressFile *)

\* the gzip stream of a content, with gzipWriter.Name
Gzip(content, name) == <<[gz |-> content, name |-> name, closed |-> TRUE]>>
\* a stream that was not completed
PartialGzip(name) == <<[gz |-> <<>>, name |-> name, closed |-> FALSE]>>

compressFile(e) ==
  /\ Alive
  /\ pc[e] = "compress"
  /\ LET job == JobOf(e[1])
         r   == run[e]
         filename == r.mergedFile
         compressedFilename == CompressedName(filename)
         fail(what, created) ==
           Goto(e, [pc |-> "ret",
                    run |-> [r EXCEPT !.err = Wrap("failed to compress file", IoErr(what)),
                                      !.made = @ \cup created]])
     IN \/ \* os.Open(filename) or os.Create(compressedFilename) fails
           /\ fs' = fs
           /\ fail("open or create", {})
        \/ \* io.Copy or gzipWriter.Close fails: the created file stays
           /\ filename \in DOMAIN fs
           /\ fs' = WriteFile(fs, compressedFilename, PartialGzip(MergedBase(job.IndexName)))
           /\ fail("copy or close", {compressedFilename})
        \/ /\ filename \in DOMAIN fs
           /\ fs' = WriteFile(fs, compressedFilename,
                              Gzip(fs[filename], MergedBase(job.IndexName)))
           /\ Goto(e, [pc |-> "upload",
                       run |-> [r EXCEPT !.compressedFile = compressedFilename,
                                         !.made = @ \cup {compressedFilename}]])
  /\ UNCHANGED <<cfg, proc, index, s3, mutex, fires>>

---------------------------------------------------------------------------
(* S3Client.Upload, and the end of Service.Backup *)

\* delay := baseDelay * time.Duration(attempt), in seconds
\* (delayFlat: a constant delay)
delayFlat(attempt) == baseDelay
delay(attempt) == baseDelay * attempt

\* lastErr = err  (lastErrFirst: the first error is kept)
lastErrFirst(lastErr, err) == IF lastErr = NoErr THEN err ELSE lastErr
lastErrOf(lastErr, err) == err

\* if attempt < maxRetries: there is another attempt to wait for
retry(attempt) == attempt < maxRetries

\* fmt.Errorf("failed to upload file after %d attempts: %w", maxRetries, lastErr)
exhausted(lastErr) ==
  Wrap("failed to upload file after " \o ToString(maxRetries) \o " attempts", lastErr)

\* Service.cleanup: os.Remove of every window file and of the merged file
cleanup(f, tempFiles, mergedFile, compressedFile) ==
  RemoveFiles(f, Range(tempFiles) \cup {mergedFile})

\* Upload's os.Stat, before the attempts
UploadStat(e) ==
  /\ Alive
  /\ pc[e] = "upload"
  /\ LET r == run[e] IN
       IF r.compressedFile \notin DOMAIN fs
         THEN Goto(e, [pc |-> "ret",
                       run |-> [r EXCEPT !.err = Wrap("failed to upload to S3",
                                  Wrap("failed to stat file", IoErr("stat")))]])
         ELSE Goto(e, [pc |-> "put", run |-> [r EXCEPT !.attempt = 1]])
  /\ UNCHANGED <<cfg, proc, index, fs, s3, mutex, fires>>

\* one iteration of Upload's loop up to its sleep: os.Open, PutObject
PutObject(e) ==
  /\ Alive
  /\ pc[e] = "put"
  /\ LET job == JobOf(e[1])
         r   == run[e]
     IN IF r.compressedFile \notin DOMAIN fs
          THEN /\ Goto(e, [pc |-> "ret",
                           run |-> [r EXCEPT !.err = Wrap("failed to upload to S3",
                                      Wrap("failed to open file", IoErr("open")))]])
               /\ UNCHANGED <<fs, s3>>
          ELSE \/ \* the put succeeds: Upload returns nil, Backup reclaims
                  \* its temporary files and returns nil
                  /\ ~Cancelled
                  /\ s3' = WriteFile(s3, S3Key(job), fs[r.compressedFile])
                  /\ fs' = cleanup(fs, r.allFiles, r.mergedFile, r.compressedFile)
                  /\ Goto(e, [pc |-> "ret", run |-> [r EXCEPT !.puts = Append(@, NoErr)]])
               \/ \* the put fails (it does when ctx is cancelled)
                  LET err == IF Cancelled THEN CtxErr ELSE PutError(r.attempt) IN
                    LET r1 == [r EXCEPT !.puts = Append(@, err),
                                        !.lastErr = lastErrOf(@, err)]
                    IN /\ UNCHANGED <<fs, s3>>
                       /\ IF retry(r.attempt)
                            THEN Goto(e, [pc |-> "backoff", run |-> r1])
                            ELSE Goto(e, [pc |-> "ret",
                                          run |-> [r1 EXCEPT !.err =
                                             Wrap("failed to upload to S3",
                                                  exhausted(r1.lastErr))]])
  /\ UNCHANGED <<cfg, proc, index, mutex, fires>>

\* time.Sleep(delay), then attempt++
Backoff(e) ==
  /\ Alive
  /\ pc[e] = "backoff"
  /\ Goto(e, [pc |-> "put",
              run |-> [run[e] EXCEPT !.waits = Append(@, delay(run[e].attempt)),
                                     !.attempt = @ + 1]])
  /\ UNCHANGED <<cfg, proc, index, fs, s3, mutex, fires>>

---------------------------------------------------------------------------
(* Specifications *)

NextCleanup ==
  \/ \E j \in JobIds(cfg) : CleanupHandlerSkip(j)
  \/ \E j \in JobIds(cfg) : CleanupHandlerStart(j)
  \/ \E e \in Execs(cfg) : Cleanup(e)
  \/ \E e \in Execs(cfg) : CleanupHandlerReturn(e)

\* the steps of one Backup call
NextRun ==
  \/ \E e \in Execs(cfg) : getCount(e)
  \/ \E e \in Execs(cfg) : searchAndSave(e)
  \/ \E e \in Execs(cfg) : Pause(e)
  \/ \E e \in Execs(cfg) : mergeFiles(e)
  \/ \E e \in Execs(cfg) : compressFile(e)
  \/ \E e \in Execs(cfg) : UploadStat(e)
  \/ \E e \in Execs(cfg) : PutObject(e)
  \/ \E e \in Execs(cfg) : Backoff(e)

NextBackup ==
  \/ \E j \in JobIds(cfg) : BackupHandlerSkip(j)
  \/ \E j \in JobIds(cfg) : BackupHandlerStart(j)
  \/ \E e \in Execs(cfg) : BackupHandlerReturn(e)
  \/ NextRun

Next == NextCleanup \/ NextBackup

\* the scheduler with a cleanup job and a backup job
Spec == Init /\ [][Next]_vars

\* one call of Backup from its loop to its return, with every interval
SpecBackup == InitBackup /\ [][NextRun]_vars

\* the same call when no earlier run left a file behind
SpecFresh == InitFresh /\ [][NextRun]_vars

NextShutdown ==
  \/ Signal
  \/ CancelCtx
  \/ StopCron
  \/ Exit

\* the process with one backup job, from c.Start() until main returns
NextProcess ==
  \/ NextBackup
  \/ NextShutdown

SpecProcess == InitProcess /\ [][NextProcess]_vars

\* the scheduler with one backup job of any interval
NextAnyInterval ==
  \/ NextBackup
  \/ \E j \in JobIds(cfg) : BackupPanic(j)

SpecAnyInterval == InitAnyInterval /\ [][NextAnyInterval]_vars

\* one call of Backup and the shutdown sequence
SpecCancel == InitCancel /\ [][NextRun \/ NextShutdown]_vars

\* one call of Backup while the cleanup job of the same index fires
SpecRace == InitRace /\ [][NextRun \/ NextCleanup]_vars

\* the scheduler with two backup jobs on the same index
SpecSameIndex == InitSameIndex /\ [][NextBackup]_vars

\* two calls of Backup, of two jobs, side by side
SpecTwoJobs == InitTwoJobs /\ [][NextRun]_vars

\* the scheduler with cleanup jobs only
SpecCleanup == InitCleanup /\ [][NextCleanup]_vars

\* what a started handler of a cleanup / backup job does until its closure
\* has returned
CleanupProgress ==
  \E e \in Execs(cfg) : Cleanup(e) \/ CleanupHandlerReturn(e)
BackupProgress ==
  NextRun \/ \E e \in Execs(cfg) : BackupHandlerReturn(e)

\* the scheduler when every collaborator call returns, every sleep ends and
\* every goroutine is scheduled; nothing obliges cron to fire
FairSpec ==
  /\ InitLive /\ [][Next]_vars
  /\ WF_vars(CleanupProgress) /\ WF_vars(BackupProgress)

---------------------------------------------------------------------------
(* Properties *)

BackupExecs == {e \in Execs(cfg) : e[1] \in BackupJobIds(cfg)}

\* the handler body of execution e is in progress: the lock was taken and
\* the deferred unlock has not run
Running(e) == pc[e] \notin {"unfired", "skipped", "done"}

\* Backup's window loop has ended
LoopDone(e) == pc[e] \in {"merge", "compress", "upload", "put", "backoff", "ret"}

Last(q) == q[Len(q)]

\* C1: at every moment each registered job has at most one execution of its
\* handler body in progress, however the cron firings interleave.
C1_SingleFlight ==
  \A j \in JobIds(cfg) :
    Cardinality({k \in 1..MaxFirings : Running(<<j, k>>)}) <= 1

\* a second firing of the backup job was turned away while its first ran, and
\* the cleanup job's handler body is in progress at the same time
C1_Witness ==
  \E j \in BackupJobIds(cfg), c \in CleanupJobIds(cfg) :
    /\ Running(<<j, 1>>) /\ pc[<<j, 2>>] = "skipped"
    /\ \E k \in 1..MaxFirings : Running(<<c, k>>)

\* C2: a firing that arrives while an execution of the same job is in
\* progress is skipped: the step changes no lock, no file, no bucket object,
\* no index document and no run's requests or uploads, it only marks the
\* firing skipped; and a skipped firing stays skipped, it never runs later.
C2_SkipNoEffect ==
  [][ /\ \A j \in JobIds(cfg) :
           (fires'[j] # fires[j] /\ \E k \in 1..MaxFirings : Running(<<j, k>>))
             => /\ UNCHANGED <<cfg, proc, index, fs, s3, mutex, run>>
                /\ fires'[j] = fires[j] + 1
                /\ pc' = [pc EXCEPT ![<<j, fires'[j]>>] = "skipped"]
      /\ \A e \in Execs(cfg) :
           pc[e] = "skipped" => (pc'[e] = "skipped" /\ run'[e] = InitRun)
    ]_vars

\* the running execution completed and the firing it turned away is still
\* skipped
C2_Witness ==
  \E j \in JobIds(cfg) : pc[<<j, 1>>] = "done" /\ pc[<<j, 2>>] = "skipped"

\* C3: with an interval that divides 24, the windows of a run start at
\* 00:00:00.000, each next window starts one millisecond after the previous
\* one ends, and once the loop has ended there are 24/interval of them, the
\* last ending at 23:59:59.999.
C3_WindowsTileDay ==
  \A e \in BackupExecs :
    LET ih == JobOf(e[1]).IntervalHours
        ws == run[e].wins
    IN ih \in {1, 2, 3, 4, 6, 8, 12, 24} =>
         /\ Len(ws) > 0 => ws[1].start = 0
         /\ \A n \in 1..(Len(ws) - 1) : ws[n].end + 1 = ws[n + 1].start
         /\ \A n \in 1..Len(ws) : ws[n].start <= ws[n].end
         /\ LoopDone(e) =>
              /\ Len(ws) * ih = 24
              /\ Last(ws).end = 86399999

\* a run with interval 2 has ended its loop over 12 windows
C3_Witness ==
  \E e \in BackupExecs :
    /\ JobOf(e[1]).IntervalHours = 2
    /\ LoopDone(e)
    /\ Len(run[e].wins) = 12

\* C4: for every interval 1..24 a run that has ended its loop has processed
\* ceil(24/interval) windows, the last of them ending at 23:59:59.999.
C4_CeilWindowsCoverDay ==
  \A e \in BackupExecs :
    LET ih == JobOf(e[1]).IntervalHours
        ws == run[e].wins
    IN LoopDone(e) =>
         /\ (Len(ws) - 1) * ih < 24
         /\ Len(ws) * ih >= 24
         /\ Last(ws).end = 86399999

\* Upload has ended with a successful put / with every attempt failed
UploadSucceeded(e) == run[e].puts # <<>> /\ Last(run[e].puts) = NoErr
UploadExhausted(e) == Len(run[e].puts) = 3 /\ Last(run[e].puts) # NoErr

\* C5: the put attempts are numbered 1, 2, 3 and end at the first success;
\* the wait taken after the failed attempt i is baseDelay * i, and no wait
\* follows the last attempt; when attempt k+1 succeeds after k failures,
\* exactly k+1 attempts and k waits were made and the run returns no error.
C5_UploadRetry ==
  \A e \in BackupExecs :
    LET r == run[e] IN
      /\ Len(r.puts) <= 3
      /\ \A n \in 1..(Len(r.puts) - 1) : r.puts[n] # NoErr
      /\ \A n \in 1..Len(r.waits) : r.waits[n] = 2 * n
      /\ pc[e] = "put" => r.attempt = Len(r.puts) + 1 /\ Len(r.waits) = Len(r.puts)
      /\ pc[e] = "backoff" => r.attempt = Len(r.puts) /\ Len(r.waits) = Len(r.puts) - 1
      /\ UploadSucceeded(e) =>
           /\ pc[e] = "ret"
           /\ r.err = NoErr
           /\ Len(r.waits) = Len(r.puts) - 1

\* two failed attempts, then a success
C5_Witness ==
  \E e \in BackupExecs :
    /\ Len(run[e].puts) = 3
    /\ UploadSucceeded(e)
    /\ run[e].waits = <<2, 4>>

\* C6: when the third put fails too there is no further attempt and no
\* further wait, and Backup returns the error of the third attempt wrapped
\* with the attempt count.
C6_UploadExhaustion ==
  \A e \in BackupExecs :
    LET r == run[e] IN
      /\ Len(r.puts) <= 3
      /\ UploadExhausted(e) =>
           /\ pc[e] = "ret"
           /\ Len(r.waits) = 2
           /\ r.err = <<"failed to upload to S3",
                        "failed to upload file after 3 attempts"
                      >> \o r.puts[3]
           /\ S3Key(JobOf(e[1])) \notin DOMAIN s3

\* three failed attempts, the last with another error than the first
C6_Witness ==
  \E e \in BackupExecs :
    /\ UploadExhausted(e)
    /\ run[e].puts[1] # run[e].puts[3]
    /\ pc[e] = "ret"

\* the payloads of the window artifacts a run wrote, in the order written
Payloads(r) == [n \in 1..Len(r.got) |-> r.got[n].payload]
HitsOf(r) == [n \in 1..Len(r.got) |-> r.got[n].payload[1].hits]
\* the window numbers whose response is part of a content
WindowsIn(job, content) ==
  {n \in 1..periodsCount(job) :
     \E t \in 1..Len(content) :
       /\ content[t].gte = FormatRFC3339(Window(job, n - 1).start)
       /\ content[t].lte = FormatRFC3339(Window(job, n - 1).end)}

\* C7: after a merge that returned no error, the total count is the sum of
\* the document counts of the window artifacts the run wrote; a window whose
\* probe or extraction failed has no part in the merged file; and a failed
\* window does not end the run: the loop leaves no error behind.
C7_MergeTotal ==
  \A e \in BackupExecs :
    LET r == run[e]
        job == JobOf(e[1])
    IN /\ pc[e] \in {"compress", "upload", "put", "backoff"} =>
            r.totalCount = SumSeq(HitsOf(r))
       /\ pc[e] = "compress" =>
            /\ r.mergedFile \in DOMAIN fs
            /\ WindowsIn(job, fs[r.mergedFile]) \cap r.skipped = {}
            /\ WindowsIn(job, fs[r.mergedFile]) = {r.got[n].fileNum : n \in 1..Len(r.got)}
       /\ pc[e] \in {"count", "search", "pause", "merge"} => r.err = NoErr
       /\ (pc[e] = "ret" /\ r.got # <<>> /\ r.err # NoErr) =>
            Head(r.err) \in {"failed to merge files", "failed to compress file",
                             "failed to upload to S3"}

\* a merge of two artifacts (10 and 5 documents) in a run that skipped a window
C7_Witness ==
  \E e \in BackupExecs :
    /\ pc[e] = "compress"
    /\ run[e].skipped # {}
    /\ Len(run[e].got) = 2
    /\ run[e].totalCount = 15

\* C8: after a merge that returned no error, the merged file holds the
\* payloads of the window artifacts the run wrote, each once, in ascending
\* window number; a window that matched no document has no artifact.
C8_MergeConcatenation ==
  \A e \in BackupExecs :
    LET r == run[e]
        job == JobOf(e[1])
    IN /\ \A n \in 1..(Len(r.got) - 1) : r.got[n].fileNum < r.got[n + 1].fileNum
       /\ \A n \in 1..Len(r.got) :
            Matching(index[job.IndexName], r.got[n].payload[1].gte,
                     r.got[n].payload[1].lte) > 0
       /\ pc[e] = "compress" =>
            /\ r.mergedFile \in DOMAIN fs
            /\ fs[r.mergedFile] = Flatten(Payloads(r))

\* interval 2, documents in windows 3 and 7 only: the merged file is artifact
\* 3 followed by artifact 7, the total is 15
C8_Witness ==
  \E e \in BackupExecs :
    LET r == run[e] job == JobOf(e[1]) IN
      /\ pc[e] = "compress"
      /\ job.IntervalHours = 2
      /\ r.allFiles = <<WindowFile(job, 3), WindowFile(job, 7)>>
      /\ fs[r.mergedFile] = fs[WindowFile(job, 3)] \o fs[WindowFile(job, 7)]
      /\ fs[WindowFile(job, 3)][1].hits = 10
      /\ fs[WindowFile(job, 7)][1].hits = 5
      /\ r.totalCount = 15
      /\ {p \in DOMAIN fs : p \in r.made} = {WindowFile(job, 3), WindowFile(job, 7), r.mergedFile}

\* C9: the windows of a run are attempted one at a time in ascending number,
\* each once, whatever became of the earlier ones: after a failed window the
\* loop goes on, and when it ends every window of the loop was attempted.
C9_EveryWindowOnce ==
  \A e \in BackupExecs :
    LET r == run[e]
        job == JobOf(e[1])
        counts == SelectSeq(r.reqs, LAMBDA q : q.op = "count")
    IN /\ \A n \in 1..Len(r.wins) : r.wins[n].fileNum = n
       /\ Len(counts) = Len(r.wins)
       /\ \A n \in 1..Len(counts) : counts[n].gte = FormatRFC3339(r.wins[n].start)
       /\ \A n \in 1..Len(r.reqs) :
            r.reqs[n].op = "search" =>
              /\ n > 1
              /\ r.reqs[n - 1].op = "count"
              /\ r.reqs[n - 1].gte = r.reqs[n].gte
              /\ r.reqs[n - 1].lte = r.reqs[n].lte
       /\ pc[e] = "count" => Len(r.wins) = r.i
       /\ pc[e] \in {"search", "pause"} => Len(r.wins) = r.i + 1
       /\ r.skipped \subseteq 1..Len(r.wins)
       /\ LoopDone(e) => Len(r.wins) = 24 \div job.IntervalHours

\* the loop ended after a window other than the last had failed
C9_Witness ==
  \E e \in BackupExecs :
    /\ pc[e] = "merge"
    /\ \E n \in run[e].skipped : n < Len(run[e].wins)
    /\ Len(run[e].wins) >= 3

\* C10: a run none of whose windows produced an artifact returns no error,
\* never merges, compresses or uploads, and creates no merged and no
\* compressed file.
C10_NothingToMerge ==
  \A e \in BackupExecs :
    LET r == run[e]
        job == JobOf(e[1])
    IN r.got = <<>> =>
         /\ pc[e] \notin {"merge", "compress", "upload", "put", "backoff"}
         /\ r.err = NoErr
         /\ r.puts = <<>>
         /\ r.mergedFile = "" /\ r.compressedFile = ""
         /\ MergedFile(job.IndexName) \notin r.made
         /\ CompressedName(MergedFile(job.IndexName)) \notin r.made

\* a run of several windows, one of them failed and the others empty, has
\* returned
C10_Witness ==
  \E e \in BackupExecs :
    /\ pc[e] = "ret"
    /\ run[e].got = <<>>
    /\ run[e].skipped # {}
    /\ Len(run[e].wins) >= 2

\* C11: when a backup run ends, none of the window artifacts it created
\* still exists, whichever way the run ended after its window loop: upload
\* succeeded, merge failed, compression failed, upload failed.
C11_WindowArtifactsRemoved ==
  \A e \in BackupExecs :
    pc[e] = "ret" => Range(run[e].allFiles) \cap DOMAIN fs = {}

\* C12: when a backup run that produced a compressed artifact ends, the
\* compressed artifact no longer exists in the work directory, after a
\* successful upload as after an exhausted one.
C12_CompressedArtifactRemoved ==
  \A e \in BackupExecs :
    (pc[e] = "ret" /\ run[e].compressedFile # "") =>
      run[e].compressedFile \notin DOMAIN fs

\* the jobs of the fair scheduler's configurations
LiveJobs == UNION {JobIds(c) : c \in LiveConfigs}

\* C13: every execution that took its job's lock eventually ends, when every
\* collaborator call returns: a held lock is eventually released, and it is
\* released by nothing but the return of the closure that took it; an
\* execution leaves Running only by that return, with the lock released and
\* the process still up, whether Cleanup / Backup returned an error or not;
\* and a firing of a job none of whose executions is in progress takes the
\* lock and runs.
C13_RunEndsLockReleased ==
  /\ \A j \in LiveJobs : [](mutex[j] => <>(~mutex[j]))
  /\ [][\A j \in JobIds(cfg) :
          (mutex[j] /\ ~mutex'[j]) =>
            \E k \in 1..MaxFirings : pc[<<j, k>>] = "ret" /\ pc'[<<j, k>>] = "done"]_vars
  /\ [][\A e \in Execs(cfg) :
          (Running(e) /\ pc'[e] \in {"unfired", "skipped", "done"}) =>
            /\ pc[e] = "ret" /\ pc'[e] = "done"
            /\ mutex[e[1]] /\ ~mutex'[e[1]]
            /\ proc' = "up"]_vars
  /\ [][\A j \in JobIds(cfg) :
          (fires'[j] # fires[j] /\ ~\E k \in 1..MaxFirings : Running(<<j, k>>)) =>
            /\ mutex'[j]
            /\ pc'[<<j, fires'[j]>>] \notin {"unfired", "skipped", "done"}]_vars

\* the first execution of a job has ended, the second firing of the job took
\* the lock again and its Cleanup / Backup has returned an error
C13_Witness ==
  \E j \in JobIds(cfg) :
    /\ pc[<<j, 1>>] = "done"
    /\ pc[<<j, 2>>] = "ret"
    /\ run[<<j, 2>>].err # NoErr
    /\ mutex[j]

CleanupExecs == {e \in Execs(cfg) : e[1] \in CleanupJobIds(cfg)}

\* C14: a cleanup run that took its lock sends one delete-by-query request,
\* for its index, with the bound "now-<retention>d/d" (day granularity); it
\* sends no second request whatever the answer, and when the request failed
\* the run returns "delete by query failed" wrapping that failure.
C14_SingleDeleteRequest ==
  \A e \in CleanupExecs :
    LET r == run[e]
        job == JobOf(e[1])
    IN /\ Len(r.reqs) <= 1 /\ Len(r.dels) = Len(r.reqs)
       /\ pc[e] = "delete" => r.reqs = <<>>
       /\ pc[e] = "ret" =>
            /\ Len(r.reqs) = 1
            /\ r.reqs[1].op = "delete"
            /\ r.reqs[1].index = job.IndexName
            /\ r.reqs[1].lte = "now-" \o ToString(job.RetentionDays) \o "d/d"
            /\ r.dels[1] = NoErr => r.err = NoErr
            /\ r.dels[1] # NoErr => r.err = <<"delete by query failed">> \o r.dels[1]

\* the request of a run with retention 30 failed and the run has returned
C14_Witness ==
  \E e \in CleanupExecs :
    /\ pc[e] = "ret"
    /\ JobOf(e[1]).RetentionDays = 30
    /\ run[e].reqs[1].lte = "now-30d/d"
    /\ run[e].dels = <<IoErr("delete: transport")>>
    /\ run[e].err # NoErr

\* C15: after a termination signal the process does not exit while a job
\* handler is still in progress.
C15_ExitWaitsForHandlers ==
  proc = "exited" => \A e \in Execs(cfg) : ~Running(e)

\* C16: in a run with a positive pacing duration the run pauses between
\* every two consecutive windows, whatever became of the earlier one, and
\* not after the last: when it turns to its next window it has paused once
\* for every window before it, and when the loop has ended it has paused
\* once less than it had windows.
C16_PauseBetweenWindows ==
  \A e \in BackupExecs :
    LET r == run[e]
        job == JobOf(e[1])
    IN job.RequestInterval > 0 =>
         /\ pc[e] = "count" => Len(r.paces) = r.i
         /\ (LoopDone(e) /\ Len(r.wins) > 0) => Len(r.paces) = Len(r.wins) - 1
         /\ \A n \in 1..Len(r.paces) : r.paces[n] = job.RequestInterval

\* C17: a backup job whose interval is <= 0 or > 24 never has an execution
\* that enters Backup (where the windows are planned), and it never ends
\* the process.
C17_DegenerateIntervalRejected ==
  \A e \in BackupExecs :
    LET ih == JobOf(e[1]).IntervalHours IN
      (ih <= 0 \/ ih > 24) =>
        /\ pc[e] \in {"unfired", "skipped"}
        /\ proc # "crashed"

\* C19: once ctx is cancelled, a backup run that is in progress makes no
\* further count or search request and no further put attempt, and begins
\* no further pacing or backoff wait.
C19_PromptAbort ==
  [][Cancelled =>
       \A e \in BackupExecs :
         /\ Len(run'[e].reqs) <= Len(run[e].reqs)
         /\ Len(run'[e].puts) <= Len(run[e].puts)
         /\ Len(run'[e].paces) <= Len(run[e].paces)
         /\ Len(run'[e].waits) <= Len(run[e].waits)]_vars

\* C20: once the termination signal has been received no execution begins:
\* no firing takes a job's lock.
C20_NoStartAfterSignal ==
  [][proc # "up" =>
       \A e \in Execs(cfg) :
         pc[e] = "unfired" => pc'[e] \in {"unfired", "skipped"}]_vars

\* the temporary paths a run has created, read or is to delete
PathsOf(r) ==
  r.made \cup Range(r.allFiles) \cup ({r.mergedFile, r.compressedFile} \ {""})

\* C18: two backup runs of different configured jobs that are in progress at
\* the same time have no temporary path in common: window artifacts, day
\* artifact and compressed artifact of the one are none of the other's.
C18_DisjointTempPaths ==
  \A e1, e2 \in BackupExecs :
    (e1[1] # e2[1] /\ Running(e1) /\ Running(e2)) =>
      PathsOf(run[e1]) \cap PathsOf(run[e2]) = {}

\* C21: when compressFile fails, Backup returns that error wrapped, no put
\* attempt is made, and no file exists at the compressed artifact's path
\* when the run ends.
C21_CompressFailureLeavesNoFile ==
  \A e \in BackupExecs :
    LET r == run[e]
        job == JobOf(e[1])
    IN (pc[e] = "ret" /\ r.err # NoErr /\ Head(r.err) = "failed to compress file") =>
         /\ Len(r.err) = 2
         /\ r.puts = <<>>
         /\ CompressedName(MergedFile(job.IndexName)) \notin DOMAIN fs

\* the requests of a run about its n-th window
RequestsOf(r, n) ==
  {k \in 1..Len(r.reqs) :
     Cardinality({m \in 1..k : r.reqs[m].op = "count"}) = n}

\* C22: the bounds sent in the count request and in the search request of a
\* window name the window's start and end to the millisecond (an end of
\* hh:59:59.999), the two requests of a window carry the same bounds, and
\* the last millisecond of the window lies inside the requested range.
C22_BoundsAtMillisecond ==
  \A e \in BackupExecs :
    LET r == run[e] IN
      \A n \in 1..Len(r.wins) :
        \A k \in RequestsOf(r, n) :
          /\ ParseBound(r.reqs[k].gte) = r.wins[n].start
          /\ ParseBound(r.reqs[k].lte) = r.wins[n].end
          /\ \A m \in RequestsOf(r, n) :
               r.reqs[m].gte = r.reqs[k].gte /\ r.reqs[m].lte = r.reqs[k].lte
          /\ r.wins[n].end <= ParseBound(r.reqs[k].lte)

\* the count the probe returned for the window of the n-th artifact of a
\* run: the size its search request asked for
ProbedOf(r, n) ==
  LET k == CHOOSE k \in 1..Len(r.reqs) :
             /\ r.reqs[k].op = "search"
             /\ r.reqs[k].gte = r.got[n].payload[1].gte
  IN r.reqs[k].size
ProbedCounts(r) == [n \in 1..Len(r.got) |-> ProbedOf(r, n)]

\* C23: the total count a run hands to the uploader is the sum of the counts
\* its probes returned for the windows that produced an artifact, also when
\* a cleanup run deletes documents between a probe and its search.
C23_TotalIsProbedSum ==
  \A e \in BackupExecs :
    pc[e] \in {"upload", "put", "backoff"} =>
      run[e].totalCount = SumSeq(ProbedCounts(run[e]))

\* C23 as amended: the total count a run hands to the uploader is the number
\* of documents in the window artifacts it merged; an artifact holds the
\* documents that matched when the search was served, at most the probed
\* count; while nothing was deleted from the index each artifact holds
\* exactly the probed count.
C23_TotalIsSavedSum ==
  /\ [](\A e \in BackupExecs :
          LET r == run[e] IN
            /\ pc[e] \in {"upload", "put", "backoff"} =>
                 r.totalCount = SumSeq(HitsOf(r))
            /\ \A n \in 1..Len(r.got) : HitsOf(r)[n] <= ProbedOf(r, n)
            /\ index[JobOf(e[1]).IndexName] # NoDocs =>
                 \A n \in 1..Len(r.got) : HitsOf(r)[n] = ProbedOf(r, n))
  /\ [][\A e \in BackupExecs :
          Len(run'[e].got) = Len(run[e].got) + 1 =>
            LET p == Last(run'[e].got).payload[1] IN
              p.hits = Min(run[e].count,
                           Matching(index[JobOf(e[1]).IndexName], p.gte, p.lte))]_vars

\* the cleanup deleted the documents between the probe of a window and its
\* search: the run is about to upload with a total smaller than the sum of
\* its probes
C23_Witness ==
  \E e \in BackupExecs :
    /\ pc[e] = "upload"
    /\ run[e].totalCount < SumSeq(ProbedCounts(run[e]))
    /\ \E c \in CleanupExecs : pc[c] = "done"

\* C24: the jobs of one index name contend for one lock: of two backup jobs
\* (or two cleanup jobs) with the same index name at most one has a run in
\* progress at any time.
C24_OneLockPerIndexName ==
  \A j1, j2 \in JobIds(cfg) :
    (j1[1] = j2[1] /\ j1 # j2 /\ JobOf(j1).IndexName = JobOf(j2).IndexName) =>
      ~\E k1, k2 \in 1..MaxFirings : Running(<<j1, k1>>) /\ Running(<<j2, k2>>)

=============================================================================
